---- MODULE Spec2Model ----
(***************************************************************************)
(* bq2md: extraction of BigQuery table schemas into a Markdown document,   *)
(* with JSON-shape inference for JSON-typed columns.                       *)
(*                                                                         *)
(* Two specifications share the variables:                                 *)
(*   Spec     one run of the command line (cli.py main)                    *)
(*   SpecApi  calls of the public methods of BigQueryClient and            *)
(*            MarkdownFormatter on a constructed client                    *)
(***************************************************************************)
EXTENDS Integers, Sequences, FiniteSets, TLC

VARIABLES
    pc,            \* position of main: start, init, list, extract, save, exit;
                   \* api, api_called, api_done in a session of
                   \* method calls
    exit_code,     \* process exit code, NoExit while running
    creds,         \* what check_credentials returned, NoCreds before the call
    client,        \* TRUE once BigQueryClient() has been constructed
    listed,        \* TRUE once get_dataset_tables has been called
    tables,        \* the table list returned by get_dataset_tables
    i,             \* 1-based position of the for loop of main over tables
    schemas,       \* the list main appends each schema_info to
    markdown,      \* the last formatter call: its input and the lines emitted
    file_written,  \* TRUE once write_text has succeeded
    save_ret,      \* return value of save_markdown, "None" before the call
    raised,        \* the exception that reached the handler of main
    call           \* the last BigQueryClient method call: inputs and outcome

vars == <<pc, exit_code, creds, client, listed, tables, i, schemas, markdown,
          file_written, save_ret, raised, call>>

----------------------------------------------------------------------------
(* Bounds of the model *)

MaxRetrieved == 4      \* rows a data query returns (the code allows 100)
MaxSampleSize == 3     \* sample_size values tried in direct calls
MaxTables == 2         \* tables of a dataset in a command-line run
MaxCliRows == 1        \* rows a data query returns in a command-line run

(* Program constants *)

QueryLimit == 100          \* LIMIT 100 of the sampling query
DefaultSampleSize == 10    \* sample_size=10
MaxDisplaySamples == 3     \* samples[:3]
NoneRows == -1             \* table.num_rows is None (no numRows property)
NoExit == -1               \* the process has not exited

Min(a, b) == IF a < b THEN a ELSE b

----------------------------------------------------------------------------
(* Python values held by a Row of a sampled column.                        *)
(* A JSON value is [t, n]: its JSON type and its size (number of keys,     *)
(* number of elements, numeric value, 0/1 for false/true).                 *)
(* A raw value is [py, text, val]: a str holding JSON text, or an object   *)
(* that is already structured.  Type "other" is a Python object that is no *)
(* JSON type (the schema builder has no strategy for it).                  *)

JNull == [t |-> "null", n |-> 0]
JObj(n) == [t |-> "object", n |-> n]
JArr(n) == [t |-> "array", n |-> n]
JInt(n) == [t |-> "integer", n |-> n]
JBool(n) == [t |-> "boolean", n |-> n]
JStr(n) == [t |-> "string", n |-> n]
JOther == [t |-> "other", n |-> 1]

Text(s) == [py |-> "str", text |-> s, val |-> JNull]
Obj(v) == [py |-> "obj", text |-> "", val |-> v]

\* json.loads on the texts of the model
JsonLoads(s) ==
    CASE s = "{\"k1\": 1}" -> [exc |-> "none", val |-> JObj(1)]
      [] s = "{\"k1\": 1, \"k2\": 2}" -> [exc |-> "none", val |-> JObj(2)]
      [] s = "{}" -> [exc |-> "none", val |-> JObj(0)]
      [] s = "[]" -> [exc |-> "none", val |-> JArr(0)]
      [] s = "[1]" -> [exc |-> "none", val |-> JArr(1)]
      [] s = "0" -> [exc |-> "none", val |-> JInt(0)]
      [] s = "1" -> [exc |-> "none", val |-> JInt(1)]
      [] s = "false" -> [exc |-> "none", val |-> JBool(0)]
      [] s = "true" -> [exc |-> "none", val |-> JBool(1)]
      [] s = "null" -> [exc |-> "none", val |-> JNull]
      [] s = "\"s\"" -> [exc |-> "none", val |-> JStr(1)]
      [] OTHER -> [exc |-> "JSONDecodeError", val |-> JNull]

\* bool(value) of `if value:`
Truthy(value) ==
    IF value.py = "str" THEN value.text # ""
    ELSE IF value.val.t = "null" THEN FALSE
    ELSE IF value.val.t = "other" THEN TRUE
    ELSE value.val.n # 0

\* the exceptions the per-value handler catches
CaughtPerValue == {"JSONDecodeError", "TypeError"}

\* SchemaBuilder(): no type seen yet
NewBuilder == [types |-> {}, props |-> {}]

\* schema_builder.add_object(parsed): widens the root type set, collects the
\* keys of objects; an object of no JSON type has no strategy and raises
AddObject(builder, parsed) ==
    IF parsed.t = "other"
    THEN [exc |-> "SchemaGenerationError", builder |-> builder]
    ELSE [exc |-> "none",
          builder |-> [types |-> builder.types \cup {parsed.t},
                       props |-> IF parsed.t = "object"
                                 THEN builder.props \cup (1..parsed.n)
                                 ELSE builder.props]]

\* schema_builder.to_schema()
ToSchema(builder) == [type |-> builder.types, properties |-> builder.props]

\* the parse step of the try block: json.loads for a str, the value itself
\* otherwise
ParseValue(value) ==
    IF value.py = "str" THEN JsonLoads(value.text)
    ELSE [exc |-> "none", val |-> value.val]

\* Accept as it would be if the schema were built from the displayed samples
\* only: past the third sample the builder is left alone
AcceptFirstThree(acc, builder, parsed) ==
    IF Len(acc.samples) >= 3
    THEN [acc EXCEPT !.samples = Append(acc.samples, parsed)]
    ELSE [acc EXCEPT !.builder = builder,
                     !.samples = Append(acc.samples, parsed)]

\* the end of the try block: the value is added to the schema builder and to
\* samples
Accept(acc, builder, parsed) ==
    [acc EXCEPT !.builder = builder, !.samples = Append(acc.samples, parsed)]

\* the body of `for row in rows` for one value; acc holds samples, the
\* schema builder and the exception that left the loop, if any
FoldValue(acc, value) ==
    IF acc.exc # "none" THEN acc
    ELSE IF ~Truthy(value) THEN acc
    ELSE LET p == ParseValue(value) IN
         IF p.exc \in CaughtPerValue THEN acc
         ELSE IF p.exc # "none" THEN [acc EXCEPT !.exc = p.exc]
         ELSE LET a == AddObject(acc.builder, p.val) IN
              IF a.exc \in CaughtPerValue THEN acc
              ELSE IF a.exc # "none" THEN [acc EXCEPT !.exc = a.exc]
              ELSE Accept(acc, a.builder, p.val)

RECURSIVE FoldRows(_, _, _)
FoldRows(acc, rows, field) ==
    IF rows = <<>> THEN acc
    ELSE FoldRows(FoldValue(acc, Head(rows)[field]), Tail(rows), field)

\* one iteration of `for field in json_fields`
ProcessField(rows, field) ==
    FoldRows([samples |-> <<>>, builder |-> NewBuilder, exc |-> "none"],
             rows, field)

\* DisplaySamples without the slice
DisplaySamplesAll(samples) == samples

\* samples[:3]
DisplaySamples(samples) ==
    SubSeq(samples, 1, Min(MaxDisplaySamples, Len(samples)))

Range(s) == {s[k] : k \in DOMAIN s}

EmptyMap == [f \in {} |-> 0]

\* RandomSample drawing with replacement (random.choices)
RandomSampleWithReplacement(n, k) == [1..k -> 1..n]

\* random.sample(rows, k): the positions of k rows, no position twice
RandomSample(n, k) ==
    {p \in [1..k -> 1..n] : \A a, b \in 1..k : a # b => p[a] # p[b]}

\* the positions of the rows that reach inference
SelectRows(n, sample_size, pick) ==
    IF n > sample_size THEN pick ELSE [k \in 1..n |-> k]

\* the draws random.sample can make for n retrieved rows
Picks(n, sample_size) ==
    IF n > sample_size THEN RandomSample(n, sample_size) ELSE {<<>>}

\* OuterHandler that logs and raises again
OuterHandlerReraise(e) == [ret |-> EmptyMap, exc |-> e, outer |-> e]

\* `except Exception as e:` around the body of sample_json_fields: logs and
\* returns {}; exc is what leaves the function, outer what was caught
OuterHandler(e) == [ret |-> EmptyMap, exc |-> "none", outer |-> e]

\* ResultFields without the `if samples:` test
ResultFieldsAll(accs, json_fields) == Range(json_fields)

\* `if samples:` the fields that get an entry of result
ResultFields(accs, json_fields) ==
    {g \in Range(json_fields) : accs[g].samples # <<>>}

\* sample_json_fields(dataset_id, table_id, json_fields, sample_size).
\* q is the outcome of the query: [err, rows]; pick the draw of random.sample.
\* Returns ret, the mapping; exc, the exception raised to the caller; outer,
\* the exception the outer handler caught; queries, the number of queries
\* issued; selected, the columns of the query; picked, the positions of the
\* rows given to inference.
SampleJsonFields(json_fields, sample_size, q, pick) ==
    IF json_fields = <<>>
    THEN [ret |-> EmptyMap, exc |-> "none", outer |-> "none", queries |-> 0,
          selected |-> <<>>, picked |-> <<>>]
    ELSE IF q.err
    THEN OuterHandler("QueryError") @@
         [queries |-> 1, selected |-> json_fields, picked |-> <<>>]
    ELSE IF q.rows = <<>>
    THEN [ret |-> EmptyMap, exc |-> "none", outer |-> "none", queries |-> 1,
          selected |-> json_fields, picked |-> <<>>]
    ELSE LET picked == SelectRows(Len(q.rows), sample_size, pick)
             rows == [k \in 1..Len(picked) |-> q.rows[picked[k]]]
             accs == [f \in Range(json_fields) |-> ProcessField(rows, f)]
             raising == {f \in Range(json_fields) : accs[f].exc # "none"}
         IN IF raising # {}
            THEN OuterHandler(accs[CHOOSE f \in raising : TRUE].exc) @@
                 [queries |-> 1, selected |-> json_fields, picked |-> picked]
            ELSE [ret |-> [f \in ResultFields(accs, json_fields) |->
                             [schema |-> ToSchema(accs[f].builder),
                              samples |-> DisplaySamples(accs[f].samples)]],
                  exc |-> "none", outer |-> "none", queries |-> 1,
                  selected |-> json_fields, picked |-> picked]

----------------------------------------------------------------------------
(* Table metadata (client.get_table) and get_table_schema *)

\* Python None where a str is expected
PyNone == "<None>"

\* `x or ""`
OrEmpty(x) == IF x = PyNone THEN "" ELSE x

Field(name, type) ==
    [name |-> name, field_type |-> type, mode |-> "NULLABLE",
     description |-> PyNone]

Table(id, desc, n, schema) ==
    [table_id |-> id, description |-> desc, num_rows |-> n,
     created |-> "2024-01-01T00:00:00", schema |-> schema]

\* field_info of one column
FieldInfo(field) ==
    [name |-> field.name, type |-> field.field_type, mode |-> field.mode,
     description |-> OrEmpty(field.description)]

\* json_fields: the names of the JSON-typed columns, in schema order
JsonFields(schema) ==
    LET js == SelectSeq(schema, LAMBDA f : f.field_type = "JSON")
    IN [k \in 1..Len(js) |-> js[k].name]

\* schema_info before sampling
BaseSchema(table) ==
    [name |-> table.table_id,
     description |-> OrEmpty(table.description),
     num_rows |-> table.num_rows,
     created |-> table.created,
     fields |-> [k \in 1..Len(table.schema) |-> FieldInfo(table.schema[k])]]

\* ShouldSample without the row count test
ShouldSampleIgnoringRows(json_fields, num_rows) ==
    IF json_fields = <<>> THEN "no" ELSE "yes"

\* `json_fields and table.num_rows > 0`: "TypeError" when the comparison is
\* reached with num_rows None
ShouldSample(json_fields, num_rows) ==
    IF json_fields = <<>> THEN "no"
    ELSE IF num_rows = NoneRows THEN "TypeError"
    ELSE IF num_rows > 0 THEN "yes" ELSE "no"

\* the loop that adds json_schema and json_samples to the sampled fields
Annotate(fields, json_samples) ==
    [k \in 1..Len(fields) |->
        IF fields[k].name \in DOMAIN json_samples
        THEN fields[k] @@
             [json_schema |-> json_samples[fields[k].name].schema,
              json_samples |-> json_samples[fields[k].name].samples]
        ELSE fields[k]]

NoSchema == [name |-> PyNone]
NoSample == [ret |-> EmptyMap, exc |-> "none", outer |-> "none",
             queries |-> 0, selected |-> <<>>, picked |-> <<>>]

\* get_table_schema(dataset_id, table_id).  d is the outcome of get_table:
\* [err, table]; q and pick as for sample_json_fields.
GetTableSchema(d, q, pick) ==
    IF d.err
    THEN [exc |-> "NotFound", ret |-> NoSchema, sample |-> NoSample]
    ELSE LET base == BaseSchema(d.table)
             json_fields == JsonFields(d.table.schema)
             cond == ShouldSample(json_fields, d.table.num_rows)
         IN IF cond = "TypeError"
            THEN [exc |-> "TypeError", ret |-> NoSchema, sample |-> NoSample]
            ELSE IF cond = "yes"
            THEN LET s == SampleJsonFields(json_fields, DefaultSampleSize,
                                           q, pick)
                 IN IF s.exc # "none"
                    THEN [exc |-> s.exc, ret |-> NoSchema, sample |-> s]
                    ELSE [exc |-> "none",
                          ret |-> [base EXCEPT
                                     !.fields = Annotate(base.fields, s.ret)],
                          sample |-> s]
            ELSE [exc |-> "none", ret |-> base, sample |-> NoSample]

----------------------------------------------------------------------------
(* MarkdownFormatter *)

Line(kind, name, k) == [kind |-> kind, name |-> name, k |-> k]

\* the lines of the detail section of one JSON field
JsonFieldLines(field) ==
    <<Line("json_field", field.name, 0), Line("json_schema", field.name, 0)>>
    \o (IF "json_samples" \in DOMAIN field /\ field.json_samples # <<>>
        THEN <<Line("sample_values", field.name, 0)>>
             \o [k \in 1..Len(field.json_samples) |->
                    Line("sample", field.name, k)]
        ELSE <<>>)

RECURSIVE Concat(_)
Concat(ss) == IF ss = <<>> THEN <<>> ELSE Head(ss) \o Concat(Tail(ss))

\* format_table_schema(schema_info): [exc, lines]; `{num_rows:,}` raises
\* TypeError for None
FormatTableSchema(schema_info) ==
    IF schema_info.num_rows = NoneRows
    THEN [exc |-> "TypeError", lines |-> <<>>]
    ELSE LET json_fields ==
                 SelectSeq(schema_info.fields,
                           LAMBDA f : f.type = "JSON"
                                      /\ "json_schema" \in DOMAIN f)
         IN [exc |-> "none",
             lines |->
                <<Line("table", schema_info.name, 0)>>
                \o (IF schema_info.description # ""
                    THEN <<Line("description", schema_info.name, 0)>>
                    ELSE <<>>)
                \o <<Line("rows", schema_info.name, schema_info.num_rows)>>
                \o (IF schema_info.created # ""
                    THEN <<Line("created", schema_info.name, 0)>>
                    ELSE <<>>)
                \o [k \in 1..Len(schema_info.fields) |->
                       Line("field", schema_info.fields[k].name, k)]
                \o Concat([k \in 1..Len(json_fields) |->
                              JsonFieldLines(json_fields[k])])]

\* format_dataset_schemas(dataset_id, schemas): [exc, lines]
FormatDatasetSchemas(ss) ==
    LET per == [k \in 1..Len(ss) |-> FormatTableSchema(ss[k])]
    IN IF \E k \in 1..Len(ss) : per[k].exc # "none"
       THEN [exc |-> "TypeError", lines |-> <<>>]
       ELSE [exc |-> "none",
             lines |->
                <<Line("dataset", "", Len(ss))>>
                \o [k \in 1..Len(ss) |-> Line("toc", ss[k].name, k)]
                \o Concat([k \in 1..Len(ss) |-> per[k].lines])]

\* save_markdown(markdown_content, output_path): True, or False when
\* write_text raised; nothing is raised further
SaveMarkdown(write_ok) ==
    IF write_ok THEN [ret |-> "True", exc |-> "none"]
    ELSE [ret |-> "False", exc |-> "none"]

----------------------------------------------------------------------------
(* config.check_credentials: creds_path is the environment variable ("" when
   unset), creds_exists whether that file exists, adc_exists whether the
   application default credentials file exists *)
check_credentials(creds_path, creds_exists, adc_exists) ==
    IF creds_path = ""
    THEN IF adc_exists
         THEN [ok |-> TRUE, msg |-> "Using application default credentials."]
         ELSE [ok |-> FALSE, msg |-> "not set and no application default"]
    ELSE IF ~creds_exists
    THEN [ok |-> FALSE, msg |-> "Credentials file not found"]
    ELSE [ok |-> TRUE, msg |-> "Credentials configured correctly."]

----------------------------------------------------------------------------
(* The environment: what the columns hold, what the dataset holds, what a
   query returns *)

\* values a Row can hold in a column
ColumnValues(name) ==
    CASE name = "payload" ->
            {Text("{\"k1\": 1}"), Obj(JObj(2)), Text("[1]"), Obj(JInt(1)),
             Text("oops")}
      [] name = "doc" ->
            {Obj(JObj(0)), Text("{}"), Obj(JArr(0)), Text("[]"),
             Obj(JInt(0)), Text("0"), Obj(JBool(0)), Text("false")}
      [] name = "body" -> {Text("{\"k1\": 1}"), Text("true"), Text("{oops")}
      [] name = "meta" -> {Text("[1]"), Text("not json")}
      [] name = "tag" -> {Text("{\"k1\": 1}"), Text("oops")}
      [] name = "amount" -> {Obj(JOther)}
      [] OTHER -> {Text("")}

\* the rows a query selecting json_fields can return
TypedRows(json_fields) ==
    {r \in [Range(json_fields) ->
               UNION {ColumnValues(f) : f \in Range(json_fields)}] :
        \A f \in Range(json_fields) : r[f] \in ColumnValues(f)}

\* the results of such a query, at most n rows
TypedRowSeqs(json_fields, n) ==
    UNION {[1..k -> TypedRows(json_fields)] : k \in 0..n}

\* outcomes of client.query(query) and query_job.result()
QueryOutcomes(json_fields, n) ==
    {[err |-> TRUE, rows |-> <<>>]}
    \cup {[err |-> FALSE, rows |-> r] :
            r \in TypedRowSeqs(json_fields, Min(n, QueryLimit))}

Catalogue(id) ==
    CASE id = "logs" ->
            Table(id, "request log", 7, <<Field("line", "STRING")>>)
      [] id = "events" ->
            Table(id, PyNone, 5000,
                  <<Field("id", "INTEGER"), Field("payload", "JSON")>>)
      [] id = "flags" ->
            Table(id, PyNone, 5000, <<Field("doc", "JSON")>>)
      [] id = "pairs" ->
            Table(id, "two documents", 5000,
                  <<Field("body", "JSON"), Field("ts", "TIMESTAMP"),
                    Field("meta", "JSON")>>)
      [] id = "audit" ->
            Table(id, PyNone, 5000,
                  <<Field("tag", "JSON"), Field("who", "STRING")>>)
      [] id = "empty" ->
            Table(id, PyNone, 0, <<Field("tag", "JSON")>>)
      [] id = "v_logs" ->
            Table(id, "a view", NoneRows, <<Field("line", "STRING")>>)
      [] id = "v_audit" ->
            Table(id, "a view", NoneRows, <<Field("tag", "JSON")>>)

ApiTables == {"logs", "events", "flags", "pairs", "empty", "v_audit"}
CliTables == {"logs", "audit", "empty", "v_logs"}
ApiFieldLists == {<<>>, <<"tag">>, <<"tag", "amount">>}

\* outcomes of client.get_table(table_ref)
DescribeOutcomes(id) ==
    {[err |-> TRUE, table |-> Table(id, PyNone, 0, <<>>)],
     [err |-> FALSE, table |-> Catalogue(id)]}

\* rows the sampling query of a table can return: no more than the table has
Available(table, n) ==
    IF table.num_rows = NoneRows THEN 0 ELSE Min(n, table.num_rows)

NoQuery == [err |-> FALSE, rows |-> <<>>]
NoDescribe == [err |-> FALSE, table |-> Table(PyNone, PyNone, 0, <<>>)]
NoCall == [op |-> "none", d |-> NoDescribe, json_fields |-> <<>>,
           sample_size |-> 0, q |-> NoQuery, exc |-> "none",
           ret |-> NoSchema, sample |-> NoSample]
NoCreds == [ok |-> FALSE, msg |-> PyNone]
NoMarkdown == [input |-> <<>>, exc |-> "none", lines |-> <<>>]

\* the record of a get_table_schema call
SchemaCall(d, q, pick) ==
    LET r == GetTableSchema(d, q, pick)
    IN [op |-> "get_table_schema", d |-> d,
        json_fields |-> r.sample.selected,
        sample_size |-> DefaultSampleSize,
        q |-> IF r.sample.queries = 0 THEN NoQuery ELSE q,
        exc |-> r.exc, ret |-> r.ret, sample |-> r.sample]

\* the record of a sample_json_fields call
SampleCall(json_fields, sample_size, q, pick) ==
    LET r == SampleJsonFields(json_fields, sample_size, q, pick)
    IN [op |-> "sample_json_fields", d |-> NoDescribe,
        json_fields |-> json_fields, sample_size |-> sample_size,
        q |-> IF r.queries = 0 THEN NoQuery ELSE q,
        exc |-> r.exc, ret |-> NoSchema, sample |-> r]

----------------------------------------------------------------------------
(* SpecApi: method calls on a constructed client *)

InitApi ==
    /\ pc = "api"
    /\ exit_code = NoExit
    /\ creds = NoCreds
    /\ client = TRUE
    /\ listed = FALSE
    /\ tables = <<>>
    /\ i = 0
    /\ schemas = <<>>
    /\ markdown = NoMarkdown
    /\ file_written = FALSE
    /\ save_ret = "None"
    /\ raised = "none"
    /\ call = NoCall

ApiGetTableSchema ==
    /\ pc = "api"
    /\ pc' = "api_called"
    /\ \E id \in ApiTables :
       \E d \in DescribeOutcomes(id) :
       \E q \in QueryOutcomes(JsonFields(d.table.schema),
                              Available(d.table, MaxRetrieved)) :
       \E pick \in Picks(Len(q.rows), DefaultSampleSize) :
          call' = SchemaCall(d, q, pick)
    /\ UNCHANGED <<exit_code, creds, client, listed, tables, i, schemas,
                   markdown, file_written, save_ret, raised>>

ApiSampleJsonFields ==
    /\ pc = "api"
    /\ pc' = "api_called"
    /\ \E json_fields \in ApiFieldLists :
       \E sample_size \in 0..MaxSampleSize :
       \E q \in QueryOutcomes(json_fields, MaxRetrieved) :
       \E pick \in Picks(Len(q.rows), sample_size) :
          call' = SampleCall(json_fields, sample_size, q, pick)
    /\ UNCHANGED <<exit_code, creds, client, listed, tables, i, schemas,
                   markdown, file_written, save_ret, raised>>

\* MarkdownFormatter.format_table_schema on the schema just extracted; the
\* session ends with it
ApiFormatTableSchema ==
    /\ pc = "api_called"
    /\ call.op = "get_table_schema"
    /\ call.exc = "none"
    /\ LET r == FormatTableSchema(call.ret)
       IN markdown' = [input |-> <<call.ret>>, exc |-> r.exc,
                       lines |-> r.lines]
    /\ pc' = "api_done"
    /\ UNCHANGED <<exit_code, creds, client, listed, tables, i, schemas,
                   file_written, save_ret, raised, call>>

NextApi == ApiGetTableSchema \/ ApiSampleJsonFields \/ ApiFormatTableSchema

SpecApi == InitApi /\ [][NextApi]_vars

----------------------------------------------------------------------------
(* Spec: one run of main(dataset, output_file) *)

\* the table lists list_tables can return
TableLists ==
    {ts \in UNION {[1..k -> CliTables] : k \in 0..MaxTables} :
        \A a, b \in DOMAIN ts : a # b => ts[a] # ts[b]}

\* AfterCredentials without the sys.exit(1)
AfterCredentialsContinue(ok) == [pc |-> "init", exit_code |-> NoExit]

\* after check_credentials: go on, or report and sys.exit(1)
AfterCredentials(ok) ==
    IF ok THEN [pc |-> "init", exit_code |-> NoExit]
    ELSE [pc |-> "exit", exit_code |-> 1]

\* `if not tables:` sys.exit(0); SystemExit is no Exception, the handler of
\* main does not see it
AfterListing(ts) ==
    IF ts = <<>> THEN [pc |-> "exit", exit_code |-> 0, i |-> 0]
    ELSE [pc |-> "extract", exit_code |-> NoExit, i |-> 1]

\* `except Exception as e:` sys.exit(1)
HandlerExitCode == 1

\* AfterSave if a failed save ended the run with exit code 1
AfterSaveFailing(ret) ==
    [pc |-> "exit", exit_code |-> IF ret = "False" THEN 1 ELSE 0]

\* falling off the end of main after save_markdown: exit code 0 whatever
\* save_markdown returned
AfterSave(ret) == [pc |-> "exit", exit_code |-> 0]

Init ==
    /\ pc = "start"
    /\ exit_code = NoExit
    /\ creds = NoCreds
    /\ client = FALSE
    /\ listed = FALSE
    /\ tables = <<>>
    /\ i = 0
    /\ schemas = <<>>
    /\ markdown = NoMarkdown
    /\ file_written = FALSE
    /\ save_ret = "None"
    /\ raised = "none"
    /\ call = NoCall

CheckCredentials ==
    /\ pc = "start"
    /\ \E creds_path \in {"", "/keys/sa.json"} :
       \E creds_exists \in BOOLEAN :
       \E adc_exists \in BOOLEAN :
          LET r == check_credentials(creds_path, creds_exists, adc_exists)
          IN /\ creds' = r
             /\ pc' = AfterCredentials(r.ok).pc
             /\ exit_code' = AfterCredentials(r.ok).exit_code
    /\ UNCHANGED <<client, listed, tables, i, schemas, markdown,
                   file_written, save_ret, raised, call>>

\* bq_client = BigQueryClient(); bigquery.Client(...) may raise
InitClient ==
    /\ pc = "init"
    /\ \E ok \in BOOLEAN :
          IF ok
          THEN /\ client' = TRUE
               /\ pc' = "list"
               /\ UNCHANGED <<exit_code, raised>>
          ELSE /\ raised' = "DefaultCredentialsError"
               /\ pc' = "exit"
               /\ exit_code' = HandlerExitCode
               /\ UNCHANGED client
    /\ UNCHANGED <<creds, listed, tables, i, schemas, markdown,
                   file_written, save_ret, call>>

\* tables = bq_client.get_dataset_tables(dataset) and the empty check
GetDatasetTables ==
    /\ pc = "list"
    /\ listed' = TRUE
    /\ \/ /\ raised' = "NotFound"
          /\ pc' = "exit"
          /\ exit_code' = HandlerExitCode
          /\ UNCHANGED <<tables, i>>
       \/ \E ts \in TableLists :
          /\ tables' = ts
          /\ pc' = AfterListing(ts).pc
          /\ exit_code' = AfterListing(ts).exit_code
          /\ i' = AfterListing(ts).i
          /\ UNCHANGED raised
    /\ UNCHANGED <<creds, client, schemas, markdown, file_written, save_ret,
                   call>>

\* one iteration of the loop: schema = get_table_schema(...); append
ExtractTable ==
    /\ pc = "extract"
    /\ i <= Len(tables)
    /\ \E d \in DescribeOutcomes(tables[i]) :
       \E q \in QueryOutcomes(JsonFields(d.table.schema),
                              Available(d.table, MaxCliRows)) :
       \E pick \in Picks(Len(q.rows), DefaultSampleSize) :
          LET c == SchemaCall(d, q, pick)
          IN /\ call' = c
             /\ IF c.exc # "none"
                THEN /\ raised' = c.exc
                     /\ pc' = "exit"
                     /\ exit_code' = HandlerExitCode
                     /\ UNCHANGED <<schemas, i>>
                ELSE /\ schemas' = Append(schemas, c.ret)
                     /\ i' = i + 1
                     /\ UNCHANGED <<pc, exit_code, raised>>
    /\ UNCHANGED <<creds, client, listed, tables, markdown, file_written,
                   save_ret>>

\* after the loop: markdown_content = format_dataset_schemas(dataset, schemas)
Format ==
    /\ pc = "extract"
    /\ i > Len(tables)
    /\ LET r == FormatDatasetSchemas(schemas)
       IN /\ markdown' = [input |-> schemas, exc |-> r.exc, lines |-> r.lines]
          /\ IF r.exc # "none"
             THEN /\ raised' = r.exc
                  /\ pc' = "exit"
                  /\ exit_code' = HandlerExitCode
             ELSE /\ pc' = "save"
                  /\ UNCHANGED <<exit_code, raised>>
    /\ UNCHANGED <<creds, client, listed, tables, i, schemas, file_written,
                   save_ret, call>>

\* MarkdownFormatter.save_markdown(markdown_content, output_path), then the
\* end of main
Save ==
    /\ pc = "save"
    /\ \E write_ok \in BOOLEAN :
          LET r == SaveMarkdown(write_ok)
          IN /\ file_written' = write_ok
             /\ save_ret' = r.ret
             /\ IF r.exc # "none"
                THEN /\ raised' = r.exc
                     /\ pc' = "exit"
                     /\ exit_code' = HandlerExitCode
                ELSE /\ pc' = AfterSave(r.ret).pc
                     /\ exit_code' = AfterSave(r.ret).exit_code
                     /\ UNCHANGED raised
    /\ UNCHANGED <<creds, client, listed, tables, i, schemas, markdown, call>>

Next ==
    \/ CheckCredentials
    \/ InitClient
    \/ GetDatasetTables
    \/ ExtractTable
    \/ Format
    \/ Save

Spec == Init /\ [][Next]_vars

----------------------------------------------------------------------------
(* Properties *)

\* the last call is a get_table_schema call that returned a schema
Returned == call.op = "get_table_schema" /\ call.exc = "none"

\* the last call issued its query and got rows
GotRows == call.sample.queries = 1 /\ ~call.q.err /\ call.q.rows # <<>>

\* the rows the last call gave to inference
SampledRows ==
    [k \in 1..Len(call.sample.picked) |-> call.q.rows[call.sample.picked[k]]]

\* a value the try block parses successfully: it is tested, json.loads (for
\* a str) accepts it and it is a JSON value
ParsedOk(value) ==
    /\ Truthy(value)
    /\ ParseValue(value).exc = "none"
    /\ ParseValue(value).val.t \in
          {"object", "array", "string", "integer", "boolean", "null"}

\* the successfully parsed values of column f, in sampled-row order
GoodValues(f) ==
    LET good == SelectSeq(SampledRows, LAMBDA r : ParsedOk(r[f]))
    IN [k \in 1..Len(good) |-> ParseValue(good[k][f]).val]

Annotated(field) ==
    "json_schema" \in DOMAIN field /\ "json_samples" \in DOMAIN field

Bare(field) ==
    DOMAIN field = {"name", "type", "mode", "description"}

\* C1: when the sampling query of a table raises, sample_json_fields returns
\* an empty mapping, get_table_schema returns the schema with every column
\* descriptor and no annotation, nothing is raised to main, and the loop
\* moves on to the next table.
C1_QueryErrorContinues ==
    [][(/\ pc = "extract"
        /\ i <= Len(tables)
        /\ call'.sample.outer = "QueryError")
       => (/\ call'.sample.ret = EmptyMap
           /\ call'.sample.exc = "none"
           /\ call'.exc = "none"
           /\ call'.ret.name = tables[i]
           /\ Len(call'.ret.fields) = Len(call'.d.table.schema)
           /\ \A k \in 1..Len(call'.ret.fields) :
                 /\ call'.ret.fields[k].name = call'.d.table.schema[k].name
                 /\ call'.ret.fields[k].type
                       = call'.d.table.schema[k].field_type
                 /\ Bare(call'.ret.fields[k])
           /\ schemas' = Append(schemas, call'.ret)
           /\ raised' = "none"
           /\ exit_code' = NoExit
           /\ pc' = "extract"
           /\ i' = i + 1)]_vars

\* the query of the first table raised and the loop stands at the second
C1_Witness ==
    /\ pc = "extract"
    /\ i = 2
    /\ i <= Len(tables)
    /\ call.sample.outer = "QueryError"
    /\ Len(schemas) = 1

\* C2: values that fail to parse lose nothing else: every column with
\* successfully parsed values among the sampled rows is in the mapping, its
\* samples are the first of them and its schema covers each of them,
\* whatever the other values of the rows are.
C2_FailuresLoseNothing ==
    (call.op # "none" /\ call.exc = "none" /\ GotRows) =>
        \A f \in Range(call.json_fields) :
            GoodValues(f) # <<>> =>
                /\ f \in DOMAIN call.sample.ret
                /\ call.sample.ret[f].samples
                      = SubSeq(GoodValues(f), 1, Min(3, Len(GoodValues(f))))
                /\ \A k \in 1..Len(GoodValues(f)) :
                      GoodValues(f)[k].t \in call.sample.ret[f].schema.type

\* C3: a column is annotated only if it is JSON-typed, the query retrieved
\* rows and one of its sampled values was parsed successfully.
C3_AnnotationOnlyIfParsed ==
    Returned =>
        \A k \in 1..Len(call.ret.fields) :
            LET field == call.ret.fields[k]
            IN /\ Annotated(field) \/ Bare(field)
               /\ Annotated(field) =>
                     /\ field.type = "JSON"
                     /\ GotRows
                     /\ GoodValues(field.name) # <<>>

\* a JSON column whose sampled values all failed to parse, next to an
\* annotated one
C3_Witness ==
    /\ Returned
    /\ GotRows
    /\ \E k \in 1..Len(call.ret.fields) :
          /\ call.ret.fields[k].type = "JSON"
          /\ Bare(call.ret.fields[k])
    /\ \E k \in 1..Len(call.ret.fields) : Annotated(call.ret.fields[k])

\* C4: the rows given to inference are min(r, s) of the r retrieved rows, no
\* row twice, and all rows in retrieval order when r <= s.
C4_SampleCount ==
    (call.op # "none" /\ call.sample.queries = 1 /\ ~call.q.err) =>
        LET r == Len(call.q.rows)
            s == call.sample_size
            p == call.sample.picked
        IN /\ r <= QueryLimit
           /\ Len(p) = Min(r, s)
           /\ \A k \in 1..Len(p) : p[k] \in 1..r
           /\ \A a, b \in 1..Len(p) : a # b => p[a] # p[b]
           /\ r <= s => p = [k \in 1..r |-> k]

\* more rows than the sample size, drawn out of retrieval order
C4_Witness ==
    /\ call.op = "sample_json_fields"
    /\ ~call.q.err
    /\ Len(call.q.rows) > call.sample_size
    /\ call.sample_size >= 2
    /\ call.sample.picked[1] > call.sample.picked[2]

\* the sample lines the formatter emitted for a field
SampleLines(name) ==
    SelectSeq(markdown.lines, LAMBDA l : l.kind = "sample" /\ l.name = name)

\* C5: json_samples of an annotated column are the first min(3, n) of its n
\* successfully parsed values, and the formatter emits one sample block for
\* each, at most 3.
C5_DisplayTruncation ==
    /\ Returned =>
          \A k \in 1..Len(call.ret.fields) :
             LET field == call.ret.fields[k]
                 good == GoodValues(field.name)
             IN Annotated(field) =>
                   /\ Len(field.json_samples) = Min(3, Len(good))
                   /\ field.json_samples = SubSeq(good, 1, Min(3, Len(good)))
    /\ (pc = "api_done" /\ markdown.exc = "none") =>
          \A k \in 1..Len(markdown.input[1].fields) :
             LET field == markdown.input[1].fields[k]
             IN Annotated(field) =>
                   /\ Len(SampleLines(field.name)) = Len(field.json_samples)
                   /\ Len(SampleLines(field.name)) <= 3
                   /\ \A n \in 1..Len(field.json_samples) :
                         SampleLines(field.name)[n].k = n

\* four values parsed, three displayed and formatted
C5_Witness ==
    /\ pc = "api_done"
    /\ Returned
    /\ \E k \in 1..Len(call.ret.fields) :
          /\ Annotated(call.ret.fields[k])
          /\ Len(GoodValues(call.ret.fields[k].name)) >= 4
          /\ Len(call.ret.fields[k].json_samples) = 3
          /\ Len(SampleLines(call.ret.fields[k].name)) = 3

\* C6: the root type set of the schema of a column holds the JSON type of
\* every successfully parsed value, the fourth and later ones included.
C6_SchemaCoversAll ==
    (call.op # "none" /\ call.exc = "none") =>
        \A f \in DOMAIN call.sample.ret :
            \A k \in 1..Len(GoodValues(f)) :
                GoodValues(f)[k].t \in call.sample.ret[f].schema.type

\* the fourth parsed value has a type none of the first three has
C6_Witness ==
    /\ Returned
    /\ \E f \in DOMAIN call.sample.ret :
          /\ Len(GoodValues(f)) >= 4
          /\ \A k \in 1..3 : GoodValues(f)[k].t # GoodValues(f)[4].t
          /\ GoodValues(f)[4].t \in call.sample.ret[f].schema.type

\* the names of the JSON-typed columns of a table, in order
JsonColumnNames(table) ==
    LET js == SelectSeq(table.schema, LAMBDA f : f.field_type = "JSON")
    IN [k \in 1..Len(js) |-> js[k].name]

\* C7: get_table_schema issues one query, over all JSON columns, for a table
\* with a JSON column and a positive row count, and none otherwise;
\* sample_json_fields with no column returns an empty mapping without a query.
C7_QueryCount ==
    /\ Returned =>
          IF JsonColumnNames(call.d.table) # <<>>
             /\ call.d.table.num_rows > 0
          THEN /\ call.sample.queries = 1
               /\ call.sample.selected = JsonColumnNames(call.d.table)
          ELSE call.sample.queries = 0
    /\ (call.op = "get_table_schema" /\ call.exc # "none") =>
          call.sample.queries = 0
    /\ (call.op = "sample_json_fields" /\ call.json_fields = <<>>) =>
          /\ call.sample.ret = EmptyMap
          /\ call.sample.queries = 0

\* one query over both JSON columns of a table
C7_Witness ==
    /\ Returned
    /\ Len(JsonColumnNames(call.d.table)) = 2
    /\ call.sample.queries = 1
    /\ call.sample.selected = JsonColumnNames(call.d.table)

CredentialsFailed == creds.msg # PyNone /\ ~creds.ok

\* C8: when check_credentials fails the run ends with exit code 1 and has
\* not created the client, listed tables, described a table, run a query or
\* written the file.
C8_CredentialFailureFirst ==
    CredentialsFailed =>
        /\ pc = "exit"
        /\ exit_code = 1
        /\ ~client
        /\ ~listed
        /\ call = NoCall
        /\ schemas = <<>>
        /\ markdown = NoMarkdown
        /\ ~file_written
        /\ save_ret = "None"

C8_Witness == CredentialsFailed /\ pc = "exit"

\* C9: the exit code is 1 when the credential check failed or an exception
\* reached main, 0 when the dataset has no tables (nothing described,
\* nothing written), 0 when all tables were extracted and the document was
\* saved; a failed write makes save_markdown return False and leaves the
\* exit code 0.
C9_ExitCodes ==
    pc = "exit" =>
        /\ exit_code \in {0, 1}
        /\ exit_code = 1 <=> (CredentialsFailed \/ raised # "none")
        /\ (exit_code = 0 /\ tables = <<>>) =>
              /\ listed
              /\ call = NoCall
              /\ markdown = NoMarkdown
              /\ ~file_written
              /\ save_ret = "None"
        /\ (exit_code = 0 /\ tables # <<>>) =>
              /\ Len(schemas) = Len(tables)
              /\ save_ret \in {"True", "False"}
              /\ file_written <=> save_ret = "True"
        /\ save_ret = "False" => (raised = "none" /\ exit_code = 0)
        /\ raised \in {"NotFound", "TypeError", "DefaultCredentialsError"}
              => ~file_written

\* the write failed and the run ended with exit code 0
C9_Witness ==
    /\ pc = "exit"
    /\ save_ret = "False"
    /\ exit_code = 0

\* json.dumps of a JSON value
JsonDumps(v) ==
    CASE v = JObj(0) -> "{}"
      [] v = JObj(1) -> "{\"k1\": 1}"
      [] v = JObj(2) -> "{\"k1\": 1, \"k2\": 2}"
      [] v = JArr(0) -> "[]"
      [] v = JArr(1) -> "[1]"
      [] v = JInt(0) -> "0"
      [] v = JInt(1) -> "1"
      [] v = JBool(0) -> "false"
      [] v = JBool(1) -> "true"
      [] v = JNull -> "null"
      [] OTHER -> "\"s\""

\* the same value arriving as JSON text
AsText(value) ==
    IF value.py = "obj" /\ value.val.t # "other"
    THEN Text(JsonDumps(value.val))
    ELSE value

\* the query result with every structured value arriving as JSON text
Textified(q) ==
    [q EXCEPT !.rows = [k \in 1..Len(q.rows) |->
                          [f \in DOMAIN q.rows[k] |-> AsText(q.rows[k][f])]]]

\* C10: a structured value is used directly: the mapping is the one the same
\* rows give when every structured value arrives as JSON text, also for the
\* empty object, the empty array, 0 and false.
C10_StructuredAsText ==
    (call.op # "none" /\ call.exc = "none" /\ GotRows) =>
        call.sample.ret
           = SampleJsonFields(call.json_fields, call.sample_size,
                              Textified(call.q), call.sample.picked).ret
====
